---- MODULE Spec2Model ----
(***************************************************************************)
(* `gh gist view`: pkg/cmd/gist/view/view.go.                              *)
(*                                                                         *)
(* One run of the command is modelled as a sequential state machine: the  *)
(* program counter pc walks through RunE, viewRun and promptGists.  Go     *)
(* strings are sequences of one-character strings, so that substring,      *)
(* suffix and ordering tests are computed and not assumed.  Every call of  *)
(* a collaborator (HTTP client factory, listing, prompt, fetch, pager,     *)
(* markdown renderer, browser) and every write to the primary output is    *)
(* appended to the history `calls`; `out` is the text handed to            *)
(* opts.IO.Out, in order.                                                  *)
(***************************************************************************)
EXTENDS Naturals, Sequences, FiniteSets

VARIABLES
    pc,         \* position in RunE / viewRun / promptGists
    args,       \* positional arguments of the command line
    flags,      \* the flags as given on the command line (never changed)
    isStdoutTTY, \* what opts.IO.IsStdoutTTY() answered in RunE
    opts,       \* ViewOptions: Selector, Filename, Raw, Web, ListFiles
    gistID,     \* viewRun's local gistID
    gists,      \* promptGists' local gists (the listing), gone when it returns
    labels,     \* promptGists' local opts (the options of the prompt)
    index,      \* promptGists' local index (the option chosen)
    gist,       \* viewRun's local gist (the fetched gist)
    filenames,  \* viewRun's local filenames
    idx,        \* index of the body loop (0-based, as in the source)
    out,        \* text handed to opts.IO.Out
    errOut,     \* messages handed to opts.IO.ErrOut
    calls,      \* history of collaborator calls and writes
    result,     \* what viewRun returned
    run,        \* 0: a single run; 1, 2: a run and the same command run again
    tape,       \* the collaborators' answers of the first run, in order
    prev        \* outcome of the first run, kept for the second

vars == <<pc, args, flags, isStdoutTTY, opts, gistID, gists, labels, index, gist, filenames, idx,
          out, errOut, calls, result, run, tape, prev>>

-----------------------------------------------------------------------------
(* Bounds of the model.                                                    *)

MaxFiles == 2          \* files in a fetched gist
MaxContentLen == 2     \* characters in a file's content
MaxGists == 2          \* items the listing returns (the request asks for 10)

-----------------------------------------------------------------------------
(* Strings.                                                                *)

NL == "\n"
Slash == "/"

\* byte value of the characters the model uses (Go compares strings bytewise)
Code(ch) ==
    CASE ch = NL    -> 10
      [] ch = "\""  -> 34
      [] ch = Slash -> 47
      [] ch = "D"   -> 68
      [] ch = "a"   -> 97
      [] ch = "b"   -> 98
      [] ch = "x"   -> 120
      [] OTHER      -> 0

\* strings.Contains(s, sub)
Contains(s, sub) ==
    \E k \in 0..Len(s) :
        /\ k + Len(sub) <= Len(s)
        /\ SubSeq(s, k + 1, k + Len(sub)) = sub

\* strings.HasPrefix(s, pre)
HasPrefix(s, pre) ==
    /\ Len(pre) <= Len(s)
    /\ SubSeq(s, 1, Len(pre)) = pre

\* strings.HasSuffix(s, suf)
HasSuffix(s, suf) ==
    /\ Len(suf) <= Len(s)
    /\ SubSeq(s, Len(s) - Len(suf) + 1, Len(s)) = suf

\* s < t in Go's string order
RECURSIVE StrLess(_, _)
StrLess(s, t) ==
    IF t = <<>> THEN FALSE
    ELSE IF s = <<>> THEN TRUE
    ELSE IF Code(Head(s)) # Code(Head(t)) THEN Code(Head(s)) < Code(Head(t))
    ELSE StrLess(Tail(s), Tail(t))

\* sort.Strings: the sequence with the same elements in ascending order
RECURSIVE InsertSorted(_, _)
InsertSorted(sorted, s) ==
    IF sorted = <<>> THEN <<s>>
    ELSE IF StrLess(s, Head(sorted)) THEN <<s>> \o sorted
    ELSE <<Head(sorted)>> \o InsertSorted(Tail(sorted), s)

RECURSIVE SortStrings(_)
SortStrings(seq) ==
    IF seq = <<>> THEN <<>>
    ELSE InsertSorted(SortStrings(Tail(seq)), Head(seq))

\* all sequences over S of length at most n
RECURSIVE SeqsUpTo(_, _)
SeqsUpTo(S, n) ==
    IF n = 0 THEN {<<>>}
    ELSE LET shorter == SeqsUpTo(S, n - 1)
         IN  shorter \cup {Append(s, x) : s \in shorter, x \in S}

\* the orders in which a Go map with key set S may be iterated
RECURSIVE Orders(_)
Orders(S) ==
    IF S = {} THEN {<<>>}
    ELSE UNION {{<<x>> \o rest : rest \in Orders(S \ {x})} : x \in S}

\* concatenation of a sequence of strings
RECURSIVE Concat(_)
Concat(ss) ==
    IF ss = <<>> THEN <<>> ELSE Head(ss) \o Concat(Tail(ss))

-----------------------------------------------------------------------------
(* Values.                                                                 *)

Str_markdown == <<"m", "a", "r", "k", "d", "o", "w", "n">>
TextPlain == <<"t", "e", "x", "t", "/", "p", "l", "a", "i", "n">>
TextMarkdown == <<"t", "e", "x", "t", "/">> \o Str_markdown

\* error values; Nil is Go's nil error, NotReturned marks a run still going
Nil == [err |-> "nil", msg |-> <<>>]
NotReturned == [err |-> "running", msg |-> <<>>]
Err(kind) == [err |-> kind, msg |-> <<kind>>]

\* fmt's %q of a string without characters that need escaping
Quote(s) == <<"\"">> \o s \o <<"\"">>

\* the command lines tried: no selector, a bare ID, a URL, a URL without ID
Selectors == {<<>>, <<"a">>, <<Slash, "a">>, <<"a", Slash>>}
FilenameFlags == {<<>>, <<"a">>}

\* the gists the fetch may return
FileNames == {<<"a">>, <<"a", "b">>, <<"b">>}
ContentTypes == {TextPlain, TextMarkdown}
Contents == SeqsUpTo({"x", NL}, MaxContentLen)
GistFiles == [Type : ContentTypes, Content : Contents]
Descriptions == {<<>>, <<"D">>}

\* gists of at most one file carry any content; gists of several files carry
\* these: text and markdown without a final newline, text with one
SomeFiles ==
    {[Type |-> TextPlain, Content |-> <<"x">>],
     [Type |-> TextMarkdown, Content |-> <<"x">>],
     [Type |-> TextPlain, Content |-> <<"x", NL>>]}

FileMaps ==
    UNION {[S -> IF Cardinality(S) <= 1 THEN GistFiles ELSE SomeFiles] :
             S \in {T \in SUBSET FileNames : Cardinality(T) <= MaxFiles}}
Gists == [Description : Descriptions, Files : FileMaps]

\* the listings the listing request may return: items with a description
\* (with a run of blanks in it), with a placeholder filename and a chosen
\* one, with placeholder filenames only, with two chosen filenames, with no
\* file at all
GistIDs == {<<"a">>, <<"b">>}
Str_gistfile == <<"g", "i", "s", "t", "f", "i", "l", "e">>
Placeholder1 == Str_gistfile \o <<"1">>
Placeholder2 == Str_gistfile \o <<"2">>
AFile == [Type |-> TextPlain, Content |-> <<"x">>]
Listed(id, description, names) ==
    [ID |-> id, Description |-> description, Files |-> [fn \in names |-> AFile],
     UpdatedAt |-> "3 hours"]
ListedGists ==
    {Listed(<<"a">>, <<"D", " ", " ", "D">>, {<<"a">>}),
     Listed(<<"b">>, <<>>, {Placeholder1, <<"b">>}),
     Listed(<<"a">>, <<>>, {Placeholder1, Placeholder2}),
     Listed(<<"b">>, <<>>, {<<"a">>, <<"b">>}),
     Listed(<<"a">>, <<>>, {})}
Listings == SeqsUpTo(ListedGists, MaxGists)

-----------------------------------------------------------------------------
(* Collaborators that are not part of view.go.                             *)

\* cs.Bold and cs.Gray of the colour scheme: the text between style marks
Bold(s) == <<"<bold>">> \o s \o <<"</bold>">>
Gray(s) == <<"<gray>">> \o s \o <<"</gray>">>

\* markdown.Render on success: display text derived from the content
MarkdownRender(content) == <<"<md>">> \o content \o <<"</md>">>

\* utils.FuzzyAgo(time.Since(t)): the age in words
FuzzyAgo(updatedAt) == <<updatedAt, " ago">>

\* text.ReplaceExcessiveWhitespace: every run of blanks becomes one blank
RECURSIVE ReplaceExcessiveWhitespace(_)
ReplaceExcessiveWhitespace(s) ==
    IF Len(s) < 2 THEN s
    ELSE IF s[1] = " " /\ s[2] = " " THEN ReplaceExcessiveWhitespace(Tail(s))
    ELSE <<s[1]>> \o ReplaceExcessiveWhitespace(Tail(s))

\* ghinstance.GistPrefix(hostname) of the default host
GistPrefix == <<"https://gist.github.com/">>

\* shared.GistIDFromURL: the trailing path segment, an error if there is none
RECURSIVE LastSegment(_)
LastSegment(s) ==
    IF s = <<>> \/ s[Len(s)] = Slash THEN <<>>
    ELSE Append(LastSegment(SubSeq(s, 1, Len(s) - 1)), s[Len(s)])

GistIDFromURL(url) ==
    IF LastSegment(url) = <<>>
    THEN [id |-> <<>>, err |-> Err("InvalidURL")]
    ELSE [id |-> LastSegment(url), err |-> Nil]

-----------------------------------------------------------------------------
(* History and replay.                                                     *)

\* an entry of the history: `by` is the function that made the call
Call(op, arg, ret) == [op |-> op, arg |-> arg, ret |-> ret, by |-> "viewRun"]
InRender(op, arg, ret) == [op |-> op, arg |-> arg, ret |-> ret, by |-> "render"]
Write(text) == Call("Write", text, Nil)

\* the text of the Write entries of a history, in order
RECURSIVE Written(_)
Written(h) ==
    IF h = <<>> THEN <<>>
    ELSE IF Head(h).op = "Write" THEN Head(h).arg \o Written(Tail(h))
    ELSE Written(Tail(h))

Ops(h) == {h[k].op : k \in DOMAIN h}
CountOp(h, op) == Cardinality({k \in DOMAIN h : h[k].op = op})

\* A collaborator answers a.  Of a run that is to be repeated the answers
\* are recorded; the second run, made with identical inputs, gets the
\* recorded answers again.
Reply(op, a) ==
    IF run = 0 THEN tape' = tape
    ELSE IF run = 1 THEN tape' = Append(tape, [op |-> op, ans |-> a])
    ELSE IF tape # <<>> /\ Head(tape).op = op
         THEN a = Head(tape).ans /\ tape' = Tail(tape)
         ELSE tape' = tape

OkOrFail == {TRUE, FALSE}

-----------------------------------------------------------------------------
(* The command line, and the state before RunE.                            *)

Flags == [raw : BOOLEAN, web : BOOLEAN, files : BOOLEAN, filename : FilenameFlags]

\* NewCmdView, lines 34-37 and 62-65: the options after flag parsing
OptionsOf(f) ==
    [Selector |-> <<>>, Filename |-> f.filename, Raw |-> f.raw,
     Web |-> f.web, ListFiles |-> f.files]

NoGist == [Description |-> <<>>, Files |-> <<>>]

\* the locals of a run that has not started
Fresh ==
    /\ pc = "RunE"
    /\ opts = OptionsOf(flags)
    /\ isStdoutTTY = FALSE
    /\ gistID = <<>>
    /\ gists = <<>>
    /\ labels = <<>>
    /\ index = 0
    /\ gist = NoGist
    /\ filenames = <<>>
    /\ idx = 0
    /\ out = <<>>
    /\ errOut = <<>>
    /\ calls = <<>>
    /\ result = NotReturned

Init ==
    /\ args \in {<<>>} \cup {<<s>> : s \in Selectors \ {<<>>}}
    /\ flags \in Flags
    /\ run = 0
    /\ tape = <<>>
    /\ prev = [out |-> <<>>, result |-> NotReturned, calls |-> <<>>]
    /\ Fresh

-----------------------------------------------------------------------------
(* RunE, lines 46-59.                                                      *)

RawAfterRunE_keep(raw, tty) == raw

\* lines 51-53: output that is not a terminal forces raw mode
RawAfterRunE(raw, tty) == IF ~tty THEN TRUE ELSE raw

RunE ==
    /\ pc = "RunE"
    /\ \E tty \in BOOLEAN :
        /\ Reply("IsStdoutTTY", tty)
        /\ isStdoutTTY' = tty
        /\ opts' = [opts EXCEPT
                      !.Selector = IF Len(args) = 1 THEN args[1] ELSE @,
                      !.Raw = RawAfterRunE(@, tty)]
    /\ pc' = "viewRun"
    /\ UNCHANGED <<args, flags, gistID, gists, labels, index, gist, filenames, idx, out, errOut,
                   calls, result, run, prev>>

-----------------------------------------------------------------------------
(* viewRun, lines 70-107: client, picker, browser, selector, fetch.        *)

NeedsPrompt_unlessWeb == opts.Selector = <<>> /\ ~opts.Web

\* line 77: the picker is asked when no selector was given
NeedsPrompt == opts.Selector = <<>>

AfterHttpClient_webFirst(ok) ==
    IF ok \/ (opts.Web /\ ~NeedsPrompt)
    THEN IF NeedsPrompt THEN "promptGists" ELSE "selected"
    ELSE "done"

\* lines 73-77: the client's error is returned; else the picker or the rest
AfterHttpClient(ok) ==
    IF ok
    THEN IF NeedsPrompt THEN "promptGists" ELSE "selected"
    ELSE "done"

\* lines 71-82, the part before promptGists
HttpClient ==
    /\ pc = "viewRun"
    /\ \E ok \in OkOrFail :
        /\ Reply("HttpClient", ok)
        /\ IF ok
           THEN /\ calls' = Append(calls, Call("HttpClient", <<>>, Nil))
                /\ pc' = AfterHttpClient(TRUE)
                /\ result' = result
           ELSE /\ calls' = Append(calls, Call("HttpClient", <<>>, Err("HttpClient")))
                /\ pc' = AfterHttpClient(FALSE)
                /\ result' = Err("HttpClient")
    /\ gistID' = opts.Selector
    /\ UNCHANGED <<args, flags, isStdoutTTY, opts, gists, labels, index, gist, filenames, idx, out,
                   errOut, run, prev>>

\* promptGists, lines 180-183; the error comes back through lines 79-81
ListGists ==
    /\ pc = "promptGists"
    /\ \E ok \in OkOrFail :
        IF ok
        THEN \E listing \in Listings :
                /\ Reply("ListGists", [ok |-> TRUE, listing |-> listing])
                /\ gists' = listing
                /\ calls' = Append(calls, Call("ListGists", <<>>, Nil))
                /\ pc' = "options"
                /\ result' = result
        ELSE /\ Reply("ListGists", [ok |-> FALSE, listing |-> <<>>])
             /\ gists' = gists
             /\ calls' = Append(calls, Call("ListGists", <<>>, Err("ListGists")))
             /\ pc' = "done"
             /\ result' = Err("ListGists")
    /\ UNCHANGED <<args, flags, isStdoutTTY, opts, gistID, labels, index, gist,
                   filenames, idx, out, errOut, run, prev>>

gistIDs_sorted == SortStrings([k \in DOMAIN gists |-> gists[k].ID])

\* promptGists, lines 187-190: gistIDs[i] = gist.ID
gistIDs == [k \in DOMAIN gists |-> gists[k].ID]

\* lines 193-198: the first filename, in the order the map is iterated, that
\* does not start with "gistfile"; the empty string when there is none
RECURSIVE FirstNamed(_)
FirstNamed(order) ==
    IF order = <<>> THEN <<>>
    ELSE IF ~HasPrefix(Head(order), Str_gistfile) THEN Head(order)
    ELSE FirstNamed(Tail(order))

description_anyFile(item, order) ==
    IF item.Description # <<>> THEN item.Description
    ELSE IF order = <<>> THEN <<>> ELSE Head(order)

\* lines 191-199: the text of an item's label, its Files iterated in order
description(item, order) ==
    IF item.Description = <<>> THEN FirstNamed(order) ELSE item.Description

\* lines 200-201
Label(item, order) ==
    ReplaceExcessiveWhitespace(description(item, order))
    \o <<" ", "(">> \o FuzzyAgo(item.UpdatedAt) \o <<")">>

\* promptGists, lines 185-202: one option per listed gist, in listing order
BuildOptions ==
    /\ pc = "options"
    /\ \E orders \in [DOMAIN gists -> UNION {Orders(DOMAIN g.Files) : g \in ListedGists}] :
        /\ \A k \in DOMAIN gists : orders[k] \in Orders(DOMAIN gists[k].Files)
        /\ labels' = [k \in DOMAIN gists |-> Label(gists[k], orders[k])]
    /\ pc' = "AskOne"
    /\ UNCHANGED <<args, flags, isStdoutTTY, opts, gistID, gists, index, gist,
                   filenames, idx, out, errOut, calls, result, run, tape, prev>>

\* the indexes survey.AskOne may deliver: one of the options shown; with no
\* option to show the index keeps its zero value
PromptIndexes == IF gists = <<>> THEN {0} ELSE 0..(Len(gists) - 1)

\* promptGists, lines 204-213: the prompt, and the ID at the index it gave
AskOne ==
    /\ pc = "AskOne"
    /\ \E ok \in OkOrFail :
        IF ok
        THEN \E i \in PromptIndexes :
                /\ Reply("AskOne", [ok |-> TRUE, index |-> i])
                /\ calls' = Append(calls, Call("AskOne", <<>>, Nil))
                /\ IF i < Len(gistIDs)
                   THEN /\ gistID' = gistIDs[i + 1]
                        /\ index' = i
                        /\ pc' = "prompted"
                        /\ result' = result
                        /\ UNCHANGED <<gists, labels>>
                   ELSE /\ gistID' = gistID
                        /\ index' = 0
                        /\ pc' = "done"
                        /\ result' = Err("panic: index out of range")
                        /\ gists' = <<>>
                        /\ labels' = <<>>
        ELSE /\ Reply("AskOne", [ok |-> FALSE, index |-> 0])
             /\ calls' = Append(calls, Call("AskOne", <<>>, Err("AskOne")))
             /\ gistID' = gistID
             /\ index' = 0
             /\ pc' = "done"
             /\ result' = Err("AskOne")
             /\ gists' = <<>>
             /\ labels' = <<>>
    /\ UNCHANGED <<args, flags, isStdoutTTY, opts, gist, filenames, idx, out,
                   errOut, run, prev>>

\* lines 78-82: viewRun has the ID promptGists returned; its locals are gone
PromptReturn ==
    /\ pc = "prompted"
    /\ gists' = <<>>
    /\ labels' = <<>>
    /\ index' = 0
    /\ pc' = "selected"
    /\ UNCHANGED <<args, flags, isStdoutTTY, opts, gistID, gist, filenames, idx, out,
                   errOut, calls, result, run, tape, prev>>

gistURL_bare == gistID

\* lines 85-89: the URL handed to the browser
gistURL == IF Contains(gistID, <<Slash>>) THEN gistID ELSE GistPrefix \o gistID

AfterBrowser_fallthrough == "GetGist"

\* line 93: viewRun returns what the browser launch returned
AfterBrowser == "done"

\* lines 84-94
OpenInBrowser ==
    /\ pc = "selected"
    /\ opts.Web
    /\ \E stderrTTY \in BOOLEAN, ok \in OkOrFail :
        /\ Reply("OpenInBrowser", [tty |-> stderrTTY, ok |-> ok])
        /\ errOut' = IF stderrTTY THEN Append(errOut, "Opening in your browser.")
                     ELSE errOut
        /\ calls' = Append(calls, Call("OpenInBrowser", gistURL,
                                       IF ok THEN Nil ELSE Err("OpenInBrowser")))
        /\ result' = IF ok THEN Nil ELSE Err("OpenInBrowser")
    /\ pc' = AfterBrowser
    /\ UNCHANGED <<args, flags, isStdoutTTY, opts, gistID, gists, labels, index, gist, filenames,
                   idx, out, run, prev>>

IsURL_never(id) == FALSE

\* line 96: the working ID is taken for a URL
IsURL(id) == Contains(id, <<Slash>>)

\* lines 96-102
ResolveSelector ==
    /\ pc = "selected"
    /\ ~opts.Web
    /\ IF IsURL(gistID)
       THEN LET r == GistIDFromURL(gistID)
            IN  /\ calls' = Append(calls, Call("GistIDFromURL", gistID, r.err))
                /\ IF r.err # Nil
                   THEN /\ result' = r.err
                        /\ pc' = "done"
                        /\ gistID' = gistID
                   ELSE /\ result' = result
                        /\ pc' = "GetGist"
                        /\ gistID' = r.id
       ELSE /\ pc' = "GetGist"
            /\ UNCHANGED <<calls, result, gistID>>
    /\ UNCHANGED <<args, flags, isStdoutTTY, opts, gists, labels, index, gist, filenames, idx, out,
                   errOut, run, tape, prev>>

AfterGetGist_recover(ok) == "StartPager"

\* lines 105-107: an error of GetGist is returned
AfterGetGist(ok) == IF ok THEN "StartPager" ELSE "done"

\* lines 104-107
GetGist ==
    /\ pc = "GetGist"
    /\ \E ok \in OkOrFail :
        IF ok
        THEN \E g \in Gists :
                /\ Reply("GetGist", [ok |-> TRUE, gist |-> g])
                /\ gist' = g
                /\ calls' = Append(calls, Call("GetGist", gistID, Nil))
                /\ pc' = AfterGetGist(TRUE)
                /\ result' = result
        ELSE /\ Reply("GetGist", [ok |-> FALSE, gist |-> NoGist])
             /\ gist' = gist
             /\ calls' = Append(calls, Call("GetGist", gistID, Err("GetGist")))
             /\ pc' = AfterGetGist(FALSE)
             /\ result' = Err("GetGist")
    /\ UNCHANGED <<args, flags, isStdoutTTY, opts, gistID, gists, labels, index, filenames, idx, out,
                   errOut, run, prev>>

AfterStartPager_abort(ok) == IF ok THEN "files" ELSE "done"

\* lines 111-113: where the run goes after StartPager answered
AfterStartPager(ok) == "files"

Deferred_missing == "done"

\* line 114: from here on every return runs the deferred StopPager first
Deferred == "StopPager"

PagerCalls_undeferred(ret) ==
    <<Call("StartPager", <<>>, ret), Call("StopPager", <<>>, Nil)>>

\* lines 110-114: StartPager is called; StopPager is deferred, not called
PagerCalls(ret) == <<Call("StartPager", <<>>, ret)>>

\* lines 109-114: a pager that fails to start is reported and the run goes on
StartPager ==
    /\ pc = "StartPager"
    /\ \E ok \in OkOrFail :
        /\ Reply("StartPager", ok)
        /\ IF ok
           THEN /\ calls' = calls \o PagerCalls(Nil)
                /\ errOut' = errOut
           ELSE /\ calls' = calls \o PagerCalls(Err("StartPager"))
                /\ errOut' = Append(errOut, "starting pager failed")
        /\ pc' = AfterStartPager(ok)
    /\ UNCHANGED <<args, flags, isStdoutTTY, opts, gistID, gists, labels, index, gist, filenames,
                   idx, out, result, run, prev>>

-----------------------------------------------------------------------------
(* render, lines 116-134.                                                  *)

\* line 117
IsMarkdown(gf) == Contains(gf.Type, Str_markdown) /\ ~opts.Raw

RawText_always(content) == <<content, <<NL>>>>

\* lines 126-133 when the writes succeed: the content, and a newline after
\* it unless it ends with one
RawText(content) ==
    IF ~HasSuffix(content, <<NL>>) THEN <<content, <<NL>>>> ELSE <<content>>

\* what the renderer and the output stream may answer to one render call:
\* md the renderer, w[k] the k-th Fprint of the call
RenderAnswers(gf) ==
    IF IsMarkdown(gf)
    THEN {[md |-> FALSE, w |-> <<>>]}
         \cup {[md |-> TRUE, w |-> <<ok>>] : ok \in OkOrFail}
    ELSE {[md |-> TRUE, w |-> ws] :
            ws \in {v \in SeqsUpTo(OkOrFail, Len(RawText(gf.Content))) :
                      /\ v # <<>>
                      /\ \A k \in 1..(Len(v) - 1) : v[k]
                      /\ (Len(v) < Len(RawText(gf.Content)) => ~v[Len(v)])}}

\* the Fprint calls of texts, answered by w; the first failure ends them
WriteAll(texts, w) ==
    [k \in 1..Len(w) |->
        InRender("Write", texts[k], IF w[k] THEN Nil ELSE Err("Write"))]

WriteErr(w) == IF \E k \in DOMAIN w : ~w[k] THEN Err("Write") ELSE Nil

\* one call of render: the calls and writes it makes, and what it returns
render(gf, a) ==
    IF IsMarkdown(gf)
    THEN IF ~a.md
         THEN [events |-> <<InRender("markdown.Render", gf.Content,
                                     Err("markdown.Render"))>>,
               err |-> Err("markdown.Render")]
         ELSE [events |-> <<InRender("markdown.Render", gf.Content, Nil)>>
                          \o WriteAll(<<MarkdownRender(gf.Content)>>, a.w),
               err |-> WriteErr(a.w)]
    ELSE [events |-> WriteAll(RawText(gf.Content), a.w), err |-> WriteErr(a.w)]

\* render called for the file named fn
RenderFile(fn, a) ==
    LET r == render(gist.Files[fn], a)
    IN  [events |-> <<Call("render", fn, r.err)>> \o r.events, err |-> r.err]

-----------------------------------------------------------------------------
(* viewRun, lines 136-177: what is shown.                                  *)

SingleFileBranch_unlessFiles == opts.Filename # <<>> /\ ~opts.ListFiles

\* line 136: --filename takes the single-file branch, whatever --files says
SingleFileBranch == opts.Filename # <<>>

NoSuchFile_unnamed(name) ==
    [err |-> "NoSuchFile", msg |-> <<"gist has no such file">>]

\* line 139
NoSuchFile(name) ==
    [err |-> "NoSuchFile", msg |-> <<"gist has no such file: ">> \o Quote(name)]

\* lines 136-142
SingleFile ==
    /\ pc = "files"
    /\ SingleFileBranch
    /\ IF opts.Filename \notin DOMAIN gist.Files
       THEN /\ result' = NoSuchFile(opts.Filename)
            /\ UNCHANGED <<out, calls, tape>>
       ELSE \E a \in RenderAnswers(gist.Files[opts.Filename]) :
                LET r == RenderFile(opts.Filename, a)
                IN  /\ Reply("render", a)
                    /\ calls' = calls \o r.events
                    /\ out' = out \o Written(r.events)
                    /\ result' = r.err
    /\ pc' = Deferred
    /\ UNCHANGED <<args, flags, isStdoutTTY, opts, gistID, gists, labels, index, gist, filenames,
                   idx, errOut, run, prev>>

PrintsDescription_always == gist.Description # <<>>

\* line 146
PrintsDescription == gist.Description # <<>> /\ ~opts.ListFiles

showFilenames_always == Cardinality(DOMAIN gist.Files) >= 1

\* line 150
showFilenames == Cardinality(DOMAIN gist.Files) > 1

\* lines 144-155: the description, and the filenames collected and sorted
Header ==
    /\ pc = "files"
    /\ ~SingleFileBranch
    /\ LET events == IF PrintsDescription
                     THEN <<Write(Bold(gist.Description) \o <<NL, NL>>)>>
                     ELSE <<>>
       IN  /\ calls' = calls \o events
           /\ out' = out \o Written(events)
    /\ \E order \in Orders(DOMAIN gist.Files) : filenames' = SortStrings(order)
    /\ idx' = 0
    /\ pc' = IF opts.ListFiles THEN "list" ELSE "body"
    /\ UNCHANGED <<args, flags, isStdoutTTY, opts, gistID, gists, labels, index, gist, errOut,
                   result, run, tape, prev>>

\* lines 157-162
ListFiles ==
    /\ pc = "list"
    /\ LET events == [k \in DOMAIN filenames |-> Write(filenames[k] \o <<NL>>)]
       IN  /\ calls' = calls \o events
           /\ out' = out \o Written(events)
    /\ result' = Nil
    /\ pc' = Deferred
    /\ UNCHANGED <<args, flags, isStdoutTTY, opts, gistID, gists, labels, index, gist, filenames,
                   idx, errOut, run, tape, prev>>

Aborts_never(err) == FALSE

\* lines 168-171: an error of render ends the loop
Aborts(err) == err # Nil

\* lines 164-174: one iteration of the body loop, for filenames[idx]
BodyFile ==
    /\ pc = "body"
    /\ idx < Len(filenames)
    /\ LET fn == filenames[idx + 1]
           head == IF showFilenames THEN <<Write(Gray(fn) \o <<NL, NL>>)>> ELSE <<>>
           sep == IF idx < Len(filenames) - 1 THEN <<Write(<<NL>>)>> ELSE <<>>
       IN  \E a \in RenderAnswers(gist.Files[fn]) :
               LET r == RenderFile(fn, a)
                   events == IF Aborts(r.err) THEN head \o r.events
                             ELSE head \o r.events \o sep
               IN  /\ Reply("render", a)
                   /\ calls' = calls \o events
                   /\ out' = out \o Written(events)
                   /\ IF Aborts(r.err)
                      THEN /\ result' = r.err
                           /\ pc' = Deferred
                           /\ idx' = idx
                      ELSE /\ result' = result
                           /\ pc' = pc
                           /\ idx' = idx + 1
    /\ UNCHANGED <<args, flags, isStdoutTTY, opts, gistID, gists, labels, index, gist, filenames,
                   errOut, run, prev>>

\* line 176
BodyDone ==
    /\ pc = "body"
    /\ idx >= Len(filenames)
    /\ result' = Nil
    /\ pc' = Deferred
    /\ UNCHANGED <<args, flags, isStdoutTTY, opts, gistID, gists, labels, index, gist, filenames,
                   idx, out, errOut, calls, run, tape, prev>>

\* line 114, run when viewRun returns
StopPager ==
    /\ pc = "StopPager"
    /\ calls' = Append(calls, Call("StopPager", <<>>, Nil))
    /\ pc' = "done"
    /\ UNCHANGED <<args, flags, isStdoutTTY, opts, gistID, gists, labels, index, gist, filenames,
                   idx, out, errOut, result, run, tape, prev>>

Next ==
    \/ RunE
    \/ HttpClient
    \/ ListGists
    \/ BuildOptions
    \/ AskOne
    \/ PromptReturn
    \/ OpenInBrowser
    \/ ResolveSelector
    \/ GetGist
    \/ StartPager
    \/ SingleFile
    \/ Header
    \/ ListFiles
    \/ BodyFile
    \/ BodyDone
    \/ StopPager

Spec == Init /\ [][Next]_vars

-----------------------------------------------------------------------------
(* The same command run a second time with the same inputs: every          *)
(* collaborator answers as it did in the first run, except that the pager  *)
(* now fails to start where it started, and starts where it failed.        *)

FlipPager(t) ==
    [k \in DOMAIN t |->
        IF t[k].op = "StartPager" THEN [t[k] EXCEPT !.ans = ~t[k].ans] ELSE t[k]]

Rerun ==
    /\ pc = "done"
    /\ run = 1
    /\ "StartPager" \in Ops(calls)
    /\ run' = 2
    /\ prev' = [out |-> out, result |-> result, calls |-> calls]
    /\ tape' = FlipPager(tape)
    /\ pc' = "RunE"
    /\ opts' = OptionsOf(flags)
    /\ isStdoutTTY' = FALSE
    /\ gistID' = <<>>
    /\ gists' = <<>>
    /\ labels' = <<>>
    /\ index' = 0
    /\ gist' = NoGist
    /\ filenames' = <<>>
    /\ idx' = 0
    /\ out' = <<>>
    /\ errOut' = <<>>
    /\ calls' = <<>>
    /\ result' = NotReturned
    /\ UNCHANGED <<args, flags>>

\* the steps of a run whose command line names the gist, and Rerun
NextRerun ==
    \/ RunE
    \/ HttpClient
    \/ OpenInBrowser
    \/ ResolveSelector
    \/ GetGist
    \/ StartPager
    \/ SingleFile
    \/ Header
    \/ ListFiles
    \/ BodyFile
    \/ BodyDone
    \/ StopPager
    \/ Rerun

\* the repeated runs are those of a command line that names the gist
InitRerun ==
    /\ args \in {<<s>> : s \in Selectors \ {<<>>}}
    /\ flags \in Flags
    /\ run = 1
    /\ tape = <<>>
    /\ prev = [out |-> <<>>, result |-> NotReturned, calls |-> <<>>]
    /\ Fresh

SpecRerun == InitRerun /\ [][NextRerun]_vars

-----------------------------------------------------------------------------
(* Properties.                                                             *)

Returned == pc = "done"
Called(op) == op \in Ops(calls)
LastOp == IF calls = <<>> THEN "" ELSE calls[Len(calls)].op

\* some call of a is followed, later, by a call of b
Precedes(a, b) ==
    \E i, j \in DOMAIN calls : i < j /\ calls[i].op = a /\ calls[j].op = b

\* C1 as stated: the listing request and the selection prompt happen only
\* when the selector is empty and web mode is off.
C1_PickerOnlyOutsideWeb ==
    (Called("ListGists") \/ Called("AskOne")) => (opts.Selector = <<>> /\ ~opts.Web)

\* C1, amended: the picker runs only when the selector is empty, and then
\* in web mode too: with an empty selector the listing request and the
\* prompt, in that order and once each, come before the browser hand-off
\* and before the fetch; with a selector given, neither ever happens.
C1_PickerIffNoSelector ==
    /\ (Called("ListGists") \/ Called("AskOne")) => opts.Selector = <<>>
    /\ Called("AskOne") => Precedes("ListGists", "AskOne")
    /\ CountOp(calls, "ListGists") <= 1 /\ CountOp(calls, "AskOne") <= 1
    /\ \A k \in DOMAIN calls :
         (/\ calls[k].op \in {"OpenInBrowser", "GistIDFromURL", "GetGist"}
          /\ opts.Selector = <<>>)
         => \E i, j \in 1..(k - 1) :
                i < j /\ calls[i].op = "ListGists" /\ calls[j].op = "AskOne"

\* a web-mode run without selector that reached the browser after the picker
C1_Witness ==
    /\ opts.Web
    /\ opts.Selector = <<>>
    /\ Returned
    /\ LastOp = "OpenInBrowser"
    /\ Precedes("ListGists", "AskOne")
    /\ Precedes("AskOne", "OpenInBrowser")

\* C2: with --web, whatever --filename, --files and --raw are, the run ends
\* at the browser hand-off: GetGist, StartPager, render and the markdown
\* renderer are never called, nothing is written to the primary output, and
\* the hand-off is the last thing the run does.
C2_WebEndsAtBrowser ==
    flags.web =>
        /\ Ops(calls) \subseteq {"HttpClient", "ListGists", "AskOne", "OpenInBrowser"}
        /\ out = <<>>
        /\ pc \in {"RunE", "viewRun", "promptGists", "options", "AskOne", "prompted",
                  "selected", "done"}
        /\ Called("OpenInBrowser") =>
              /\ Returned
              /\ LastOp = "OpenInBrowser"
              /\ CountOp(calls, "OpenInBrowser") = 1
              /\ result = calls[Len(calls)].ret

\* a web-mode run with --filename, --files and --raw all set, after the hand-off
C2_Witness ==
    /\ flags.web /\ flags.files /\ flags.raw /\ flags.filename # <<>>
    /\ opts.Selector # <<>>
    /\ Returned
    /\ LastOp = "OpenInBrowser"
    /\ result = Nil

\* C3: once StartPager was called, started or not, StopPager is called
\* exactly once, as the last thing before viewRun returns, on every exit
\* path; no write to the primary output follows it; it is never called in a
\* run that did not call StartPager.
C3_StopPagerOnce ==
    /\ \A k \in DOMAIN calls :
         calls[k].op = "StopPager" =>
            /\ k = Len(calls)
            /\ Returned
            /\ \E j \in 1..(k - 1) : calls[j].op = "StartPager"
    /\ CountOp(calls, "StopPager") <= 1
    /\ CountOp(calls, "StartPager") <= 1
    /\ (Returned /\ Called("StartPager")) =>
          /\ CountOp(calls, "StopPager") = 1
          /\ out = Written(SubSeq(calls, 1, Len(calls) - 1))
    /\ out = Written(calls)

\* the pager failed to start, the second file of the body failed to render,
\* and the run has returned through StopPager
C3_Witness ==
    /\ Returned
    /\ \E k \in DOMAIN calls : calls[k].op = "StartPager" /\ calls[k].ret # Nil
    /\ CountOp(calls, "render") = 2
    /\ result = Err("markdown.Render")
    /\ LastOp = "StopPager"

PagerFailed(h) == \E k \in DOMAIN h : h[k].op = "StartPager" /\ h[k].ret # Nil
PagerStarted(h) == \E k \in DOMAIN h : h[k].op = "StartPager" /\ h[k].ret = Nil
Warned == \E k \in DOMAIN errOut : errOut[k] = "starting pager failed"

-----------------------------------------------------------------------------
(* What is shown.                                                          *)

Fetched == \E k \in DOMAIN calls : calls[k].op = "GetGist" /\ calls[k].ret = Nil
Returning == pc \in {"StopPager", "done"}

IsPrefix(s, t) == Len(s) <= Len(t) /\ SubSeq(t, 1, Len(s)) = s

\* the keys of a Files mapping in ascending order
AscendingNames(files) ==
    CHOOSE seq \in Orders(DOMAIN files) :
        \A k \in 1..(Len(seq) - 1) : StrLess(seq[k], seq[k + 1])

\* what one successful call of render writes for a file
AllOk(gf) == CHOOSE a \in RenderAnswers(gf) : a.md /\ \A k \in DOMAIN a.w : a.w[k]
Rendering(gf) == Written(render(gf, AllOk(gf)).events)

\* the arguments of the render calls, in order
RECURSIVE RenderedFiles(_)
RenderedFiles(h) ==
    IF h = <<>> THEN <<>>
    ELSE IF Head(h).op = "render" THEN <<Head(h).arg>> \o RenderedFiles(Tail(h))
    ELSE RenderedFiles(Tail(h))

\* the writes viewRun itself makes (not render) whose text satisfies P
OwnWrites(P(_)) ==
    {k \in DOMAIN calls : calls[k].op = "Write" /\ calls[k].by = "viewRun" /\ P(calls[k].arg)}

IsSeparator(text) == text = <<NL>>
IsFilenameHeader(text) == text # <<>> /\ Head(text) = "<gray>"

\* the default body of a gist, as C5 describes it
ExpectedBody(g) ==
    LET names == AscendingNames(g.Files)
        n == Len(names)
        part(k) ==
            (IF n > 1 THEN Gray(names[k]) \o <<NL, NL>> ELSE <<>>)
            \o Rendering(g.Files[names[k]])
            \o (IF k < n THEN <<NL>> ELSE <<>>)
    IN  (IF g.Description # <<>> THEN Bold(g.Description) \o <<NL, NL>> ELSE <<>>)
        \o Concat([k \in 1..n |-> part(k)])

DefaultMode == ~flags.web /\ flags.filename = <<>> /\ ~flags.files

\* C5: in default mode, for a fetched gist with n files all of which render,
\* the primary output is exactly: the bold description and a blank line iff
\* the description is not empty; then per file, in ascending filename order,
\* the muted filename and a blank line iff n > 1, the file's rendering, and
\* one newline iff the file is not the last; so n render calls, max(n-1, 0)
\* separators, no filename header when n <= 1.  While the run goes on, and
\* when a render fails, the output is the part of that text written so far.
C5_DefaultBody ==
    (DefaultMode /\ Fetched) =>
        LET names == AscendingNames(gist.Files)
            n == Len(names)
        IN  /\ IsPrefix(out, ExpectedBody(gist))
            /\ IsPrefix(RenderedFiles(calls), names)
            /\ n <= 1 => OwnWrites(IsFilenameHeader) = {}
            /\ (Returned /\ result = Nil) =>
                  /\ out = ExpectedBody(gist)
                  /\ RenderedFiles(calls) = names
                  /\ CountOp(calls, "render") = n
                  /\ Cardinality(OwnWrites(IsSeparator)) = IF n > 1 THEN n - 1 ELSE 0
                  /\ Cardinality(OwnWrites(IsFilenameHeader)) = IF n > 1 THEN n ELSE 0

\* description "D", file a of markdown, file b of text "x", on a terminal:
\* header, a's header and body, blank line, b's header, "x\n"
C5_Witness ==
    /\ DefaultMode /\ Returned /\ result = Nil
    /\ isStdoutTTY /\ ~flags.raw
    /\ gist.Description = <<"D">>
    /\ DOMAIN gist.Files = {<<"a">>, <<"b">>}
    /\ gist.Files[<<"a">>].Type = TextMarkdown
    /\ gist.Files[<<"b">>] = [Type |-> TextPlain, Content |-> <<"x">>]
    /\ out = <<"<bold>", "D", "</bold>", NL, NL,
               "<gray>", "a", "</gray>", NL, NL, "<md>", "x", "</md>", NL,
               "<gray>", "b", "</gray>", NL, NL, "x", NL>>

FilesOnly == ~flags.web /\ flags.filename = <<>> /\ flags.files

\* C6: with --files (no --web, no --filename) the primary output is exactly
\* the filenames in ascending order, a newline after each, and nothing else:
\* no description, no header, no content, no call of render or of the
\* markdown renderer; the run succeeds, with empty output for no files.
C6_FilesOnly ==
    (FilesOnly /\ Fetched) =>
        LET names == AscendingNames(gist.Files)
        IN  /\ ~Called("render") /\ ~Called("markdown.Render")
            /\ Returning =>
                  /\ out = Concat([k \in 1..Len(names) |-> names[k] \o <<NL>>])
                  /\ result = Nil
            /\ ~Returning => out = <<>>

\* the listing of a described gist with files "ab" and "a"
C6_Witness ==
    /\ FilesOnly /\ Returned
    /\ gist.Description = <<"D">>
    /\ DOMAIN gist.Files = {<<"a", "b">>, <<"a">>}
    /\ out = <<"a", NL, "a", "b", NL>>

\* C7: with --filename naming no key of the fetched gist's Files (outside
\* web mode, with or without --files) viewRun returns the file-not-found
\* error, whose message contains the name; render is never called and
\* nothing is written to the primary output.
C7_NoSuchFile ==
    (~flags.web /\ flags.filename # <<>> /\ Fetched
     /\ flags.filename \notin DOMAIN gist.Files) =>
        /\ out = <<>>
        /\ ~Called("render") /\ ~Called("markdown.Render") /\ ~Called("Write")
        /\ pc \in {"StartPager", "files", "StopPager", "done"}
        /\ Returning =>
              /\ result.err = "NoSuchFile"
              /\ Contains(result.msg, flags.filename)

\* --filename a and --files, a gist whose only file is "ab"
C7_Witness ==
    /\ ~flags.web /\ flags.files /\ flags.filename = <<"a">>
    /\ Fetched /\ Returned
    /\ DOMAIN gist.Files = {<<"a", "b">>}
    /\ gist.Description # <<>>
    /\ result.err = "NoSuchFile"

\* C8: with --filename naming a key of the fetched gist's Files (outside web
\* mode, whatever --files says and however many files there are) render is
\* called exactly once, for that file, viewRun returns what it returned, and
\* the primary output is what that call wrote: the file's rendering when it
\* succeeded; no description, no filename header, no separator, no other file.
C8_SingleFile ==
    (~flags.web /\ flags.filename # <<>> /\ Fetched
     /\ flags.filename \in DOMAIN gist.Files) =>
        /\ pc \in {"StartPager", "files", "StopPager", "done"}
        /\ OwnWrites(LAMBDA text : TRUE) = {}
        /\ IsPrefix(out, Rendering(gist.Files[flags.filename]))
        /\ ~Returning => (out = <<>> /\ ~Called("render"))
        /\ Returning =>
              /\ RenderedFiles(calls) = <<flags.filename>>
              /\ \E k \in DOMAIN calls : calls[k].op = "render" /\ calls[k].ret = result
              /\ result = Nil => out = Rendering(gist.Files[flags.filename])

\* --filename a and --files, a described gist with files a and b
C8_Witness ==
    /\ ~flags.web /\ flags.files /\ flags.filename = <<"a">>
    /\ Returned /\ result = Nil
    /\ gist.Description # <<>>
    /\ DOMAIN gist.Files = {<<"a">>, <<"b">>}
    /\ gist.Files[<<"a">>] = [Type |-> TextPlain, Content |-> <<"x">>]
    /\ out = <<"x", NL>>

-----------------------------------------------------------------------------
(* render.                                                                 *)

\* the entries of the history that are calls of render
RenderCalls == {k \in DOMAIN calls : calls[k].op = "render"}

\* the file a call of render was made for
FileOf(k) == gist.Files[calls[k].arg]

\* the last entry made inside the call of render at k
RECURSIVE BlockEnd(_)
BlockEnd(k) ==
    IF k < Len(calls) /\ calls[k + 1].by = "render" THEN BlockEnd(k + 1) ELSE k

\* what the call of render at k handed to the primary output
Emitted(k) == Written(SubSeq(calls, k + 1, BlockEnd(k)))

\* raw mode in effect: --raw given, or standard output not a terminal
EffectiveRaw == flags.raw \/ ~isStdoutTTY

\* C9: a call of render hands the content to the markdown renderer iff the
\* file's type contains "markdown" and raw mode is not in effect (--raw
\* given, or standard output is not a terminal); otherwise it writes the
\* content itself and the markdown renderer is not called.  The renderer is
\* called nowhere else, so never when standard output is not a terminal.
C9_MarkdownIffNotRaw ==
    /\ \A k \in RenderCalls :
         /\ k < Len(calls)
         /\ calls[k + 1].by = "render"
         /\ calls[k + 1].arg = FileOf(k).Content
         /\ IF Contains(FileOf(k).Type, Str_markdown) /\ ~EffectiveRaw
            THEN calls[k + 1].op = "markdown.Render"
            ELSE /\ calls[k + 1].op = "Write"
                 /\ \A j \in (k + 1)..BlockEnd(k) : calls[j].op # "markdown.Render"
    /\ \A j \in DOMAIN calls :
         calls[j].op = "markdown.Render" => (j > 1 /\ calls[j - 1].op = "render")
    /\ (pc # "RunE" /\ ~isStdoutTTY) => ~Called("markdown.Render")

\* on a terminal and without --raw, a body of which one file went through
\* the markdown renderer and another was written as it is
C9_Witness ==
    /\ isStdoutTTY /\ ~flags.raw /\ Returned
    /\ \E k \in RenderCalls :
         Contains(FileOf(k).Type, Str_markdown) /\ calls[k + 1].op = "markdown.Render"
    /\ \E k \in RenderCalls :
         ~Contains(FileOf(k).Type, Str_markdown) /\ calls[k + 1].op = "Write"

\* the raw calls of render that returned nil
RawRendered ==
    {k \in RenderCalls : calls[k].ret = Nil /\ calls[k + 1].op # "markdown.Render"}

\* C10: what the raw branch of render hands to the output for a content c
\* is c itself when c ends with "\n" and c followed by one "\n" otherwise
\* ("\n" for the empty c), no other character changed; normalizing that
\* text again leaves it as it is; two raw renderings of the same content
\* are the same text.
C10_TrailingNewline ==
    /\ \A k \in RawRendered :
         LET c == FileOf(k).Content
             normal == Concat(RawText(c))
         IN  /\ Emitted(k) = IF c # <<>> /\ c[Len(c)] = NL THEN c ELSE Append(c, NL)
             /\ Emitted(k) = normal
             /\ Concat(RawText(normal)) = normal
    /\ \A k, j \in RawRendered :
         FileOf(k).Content = FileOf(j).Content => Emitted(k) = Emitted(j)

\* a raw rendering of "\nx": the newline inside stays, one is added at the end
C10_Witness ==
    /\ Returned
    /\ \E k \in RawRendered :
         /\ FileOf(k).Content = <<NL, "x">>
         /\ Emitted(k) = <<NL, "x", NL>>
         /\ out = Emitted(k)

\* the prompt is about to be shown, or has just been answered
Prompting == pc = "AskOne" /\ pc' # "AskOne"
Panicked == result.err = "panic: index out of range"

\* C11 as stated: an empty listing is handled before the prompt: the prompt
\* is never invoked with an empty list of options, the ID array of an empty
\* listing is never indexed, and the run does not crash.
C11_EmptyListHandled ==
    [][Prompting => (labels # <<>> /\ gistIDs # <<>> /\ ~Panicked')]_vars

\* the entries of the history made by calls of op
CallsOf(op) == {k \in DOMAIN calls : calls[k].op = op}
Succeeded(op) == \E k \in CallsOf(op) : calls[k].ret = Nil
Resolved == pc \in {"GetGist", "StartPager", "files", "list", "body", "StopPager"}

\* C12: outside web mode a selector with "/" goes through GistIDFromURL,
\* once and before GetGist, and GetGist gets the extracted ID, never the
\* URL; when the extraction fails viewRun returns its error and GetGist is
\* not called.  A selector without "/" reaches GetGist as it is and
\* GistIDFromURL is not called.
C12_SelectorResolution ==
    (opts.Selector # <<>> /\ ~opts.Web /\ pc # "RunE") =>
        LET sel == opts.Selector
            r == GistIDFromURL(sel)
        IN  IF Contains(sel, <<Slash>>)
            THEN /\ \A k \in CallsOf("GetGist") :
                      /\ calls[k].arg = r.id
                      /\ calls[k].arg # sel
                      /\ ~Contains(calls[k].arg, <<Slash>>)
                      /\ \E j \in CallsOf("GistIDFromURL") : j < k /\ calls[j].ret = Nil
                 /\ \A j \in CallsOf("GistIDFromURL") : calls[j].arg = sel /\ calls[j].ret = r.err
                 /\ Cardinality(CallsOf("GistIDFromURL")) <= 1
                 /\ (Resolved \/ (Returned /\ Succeeded("HttpClient"))) =>
                      Called("GistIDFromURL")
                 /\ (r.err # Nil /\ Called("GistIDFromURL")) =>
                      /\ Returned
                      /\ result = r.err
                      /\ ~Called("GetGist")
            ELSE /\ ~Called("GistIDFromURL")
                 /\ \A k \in CallsOf("GetGist") : calls[k].arg = sel

\* a URL was given, its last segment was fetched; the run is over
C12_Witness ==
    /\ Returned
    /\ ~opts.Web
    /\ opts.Selector = <<Slash, "a">>
    /\ \E j \in CallsOf("GistIDFromURL"), k \in CallsOf("GetGist") :
         j < k /\ calls[j].arg = <<Slash, "a">> /\ calls[k].arg = <<"a">> /\ calls[k].ret = Nil

\* the errors that end viewRun before line 84 is reached
BeforeWeb == {"HttpClient", "ListGists", "AskOne", "panic: index out of range"}

\* C13: in web mode the browser gets GistPrefix followed by the working ID
\* when that ID has no "/", and the working ID as it is when it has one (a
\* selector given on the command line is the working ID); OpenInBrowser is
\* called exactly once, unless the run ended before, and what it returned is
\* what viewRun returns.  Outside web mode it is not called.
C13_BrowserURL ==
    /\ \A k \in CallsOf("OpenInBrowser") :
         /\ opts.Web
         /\ opts.Selector # <<>> => gistID = opts.Selector
         /\ calls[k].arg = IF \E c \in DOMAIN gistID : gistID[c] = Slash
                           THEN gistID
                           ELSE <<"https://gist.github.com/">> \o gistID
         /\ k = Len(calls)
         /\ Returned
         /\ result = calls[k].ret
    /\ Cardinality(CallsOf("OpenInBrowser")) <= 1
    /\ ~Called("OpenInBrowser") /\ Returned /\ opts.Web => result.err \in BeforeWeb

\* a bare ID was opened in the browser under the host's prefix
C13_Witness ==
    /\ Returned
    /\ opts.Selector = <<"a">>
    /\ result = Nil
    /\ \E k \in CallsOf("OpenInBrowser") :
         calls[k].arg = <<"https://gist.github.com/", "a">>

\* the calls of render that returned an error
FailedRenders == {k \in RenderCalls : calls[k].ret # Nil}

\* the text of the default body up to, and without, the rendering of file i
BodyBefore(g, i) ==
    LET names == AscendingNames(g.Files)
        n == Len(names)
        header(k) == IF n > 1 THEN Gray(names[k]) \o <<NL, NL>> ELSE <<>>
        part(k) == header(k) \o Rendering(g.Files[names[k]]) \o <<NL>>
    IN  (IF g.Description # <<>> THEN Bold(g.Description) \o <<NL, NL>> ELSE <<>>)
        \o Concat([k \in 1..(i - 1) |-> part(k)]) \o header(i)

\* C14: in default mode, when the render of the i-th file in ascending
\* order returns an error, viewRun returns that error at once: that render
\* is the last call of render, viewRun writes nothing after it (no header,
\* no separator), the files rendered are the first i, and the output is the
\* description, the first i-1 files with their separators, the i-th header
\* and what the failed render handed over.
C14_RenderErrorAborts ==
    DefaultMode =>
        \A k \in FailedRenders :
            LET names == AscendingNames(gist.Files)
                i == Cardinality({j \in RenderCalls : j <= k})
            IN  /\ Returning
                /\ result = calls[k].ret
                /\ \A j \in RenderCalls : j <= k
                /\ \A j \in DOMAIN calls :
                     j > k => calls[j].by = "render" \/ calls[j].op = "StopPager"
                /\ RenderedFiles(calls) = SubSeq(names, 1, i)
                /\ calls[k].arg = names[i]
                /\ Cardinality(OwnWrites(IsSeparator)) = i - 1
                /\ Cardinality(OwnWrites(IsFilenameHeader)) = IF Len(names) > 1 THEN i ELSE 0
                /\ out = BodyBefore(gist, i) \o Emitted(k)

\* a gist of two files whose first render failed: the second was not touched
C14_Witness ==
    /\ DefaultMode
    /\ Returned
    /\ Len(AscendingNames(gist.Files)) = 2
    /\ CountOp(calls, "render") = 1
    /\ \E k \in FailedRenders :
         /\ calls[k].arg = AscendingNames(gist.Files)[1]
         /\ result = calls[k].ret
         /\ out # <<>>

\* the calls whose failure C15 is about
Fetches == {"ListGists", "AskOne", "GetGist"}

\* C15: a failing listing request, a cancelled prompt and a failing GetGist
\* each end the run with that error: the failed call is the last call of
\* the run, so there is no retry, no prompt after a failed listing, no
\* browser, no pager, no render, and the primary output stays empty.  Each
\* of the three is called at most once in a run.
C15_FetchErrorsFatal ==
    \A op \in Fetches :
        /\ Cardinality(CallsOf(op)) <= 1
        /\ \A k \in CallsOf(op) :
             calls[k].ret # Nil =>
                /\ Returned
                /\ result = calls[k].ret
                /\ result = Err(op)
                /\ k = Len(calls)
                /\ ~Called("StartPager") /\ ~Called("StopPager")
                /\ ~Called("OpenInBrowser")
                /\ RenderCalls = {}
                /\ ~Called("Write")
                /\ out = <<>>
                /\ op = "ListGists" => ~Called("AskOne")
                /\ op # "GetGist" => ~Called("GetGist")

\* a gist was picked from the prompt and its fetch failed
C15_Witness ==
    /\ Returned
    /\ result = Err("GetGist")
    /\ Succeeded("ListGists") /\ Succeeded("AskOne")
    /\ LastOp = "GetGist"
    /\ out = <<>>

\* the options of the prompt are built
OptionsBuilt == pc \in {"AskOne", "prompted"}

\* the labels a listed item can get, one for each order of iterating its Files
LabelsOf(item) == {Label(item, order) : order \in Orders(DOMAIN item.Files)}

\* C16: once the options are built there are as many labels and as many IDs
\* as listed items, the k-th ID is the ID of the k-th item and the k-th
\* label is a label of the k-th item, in the order of the listing; when the
\* prompt has given an index, the ID promptGists returns is the ID of the
\* item at that index, the item whose label stands at that index.
C16_LabelsAligned ==
    /\ OptionsBuilt =>
         /\ Len(labels) = Len(gists)
         /\ Len(gistIDs) = Len(gists)
         /\ \A k \in DOMAIN gists :
              /\ gistIDs[k] = gists[k].ID
              /\ labels[k] \in LabelsOf(gists[k])
    /\ pc = "prompted" =>
         /\ index \in 0..(Len(gists) - 1)
         /\ gistID = gists[index + 1].ID
         /\ labels[index + 1] \in LabelsOf(gists[index + 1])
    /\ ~OptionsBuilt => labels = <<>>

\* the second option of a listing given in descending ID order was chosen
C16_Witness ==
    /\ pc = "prompted"
    /\ Len(gists) = 2
    /\ gists[1].ID = <<"b">> /\ gists[2].ID = <<"a">>
    /\ labels[1] # labels[2]
    /\ index = 1
    /\ gistID = <<"a">>

\* the age in parentheses that ends the label of an item
AgeSuffix(item) == <<" ", "(">> \o FuzzyAgo(item.UpdatedAt) \o <<")">>

\* the text part of a label: the label without the age
TextPart(label, item) == SubSeq(label, 1, Len(label) - Len(AgeSuffix(item)))

\* the filenames of an item that do not start with "gistfile"
IsPlaceholder(fn) == Len(fn) >= 8 /\ \A c \in 1..8 : fn[c] = Str_gistfile[c]
Named(item) == {fn \in DOMAIN item.Files : ~IsPlaceholder(fn)}

\* C17 as stated: the text part of a label is the item's Description when
\* that is not empty, else a filename of the item without the prefix
\* "gistfile", else, when there is no such filename, the empty string.
C17_LabelTextVerbatim ==
    OptionsBuilt =>
        \A k \in DOMAIN gists :
            LET item == gists[k]
                text == TextPart(labels[k], item)
            IN  /\ labels[k] = text \o AgeSuffix(item)
                /\ IF item.Description # <<>> THEN text = item.Description
                   ELSE IF Named(item) # {} THEN text \in Named(item)
                   ELSE text = <<>>

\* C17, amended: the text part of a label is the Description with its runs
\* of blanks collapsed when the Description is not empty (the filenames do
\* not matter then); else it is, with its runs of blanks collapsed, a
\* filename of the item that does not start with "gistfile"; else, when
\* every filename starts with "gistfile" or there is no file, it is empty.
C17_LabelText ==
    OptionsBuilt =>
        \A k \in DOMAIN gists :
            LET item == gists[k]
                text == TextPart(labels[k], item)
            IN  /\ labels[k] = text \o AgeSuffix(item)
                /\ IF item.Description # <<>>
                   THEN text = ReplaceExcessiveWhitespace(item.Description)
                   ELSE IF Named(item) # {}
                   THEN \E fn \in Named(item) : text = ReplaceExcessiveWhitespace(fn)
                   ELSE text = <<>>

\* three labels: of a description with two blanks in a row, of a file named
\* b next to gistfile1, and of placeholder names only
C17_Witness ==
    /\ pc = "AskOne"
    /\ \E k \in DOMAIN gists :
         /\ gists[k].Description = <<"D", " ", " ", "D">>
         /\ TextPart(labels[k], gists[k]) = <<"D", " ", "D">>
    /\ \E k \in DOMAIN gists :
         /\ gists[k].Description = <<>>
         /\ DOMAIN gists[k].Files = {Placeholder1, <<"b">>}
         /\ TextPart(labels[k], gists[k]) = <<"b">>

\* what the run that iterates every Files mapping in ascending order of
\* filename builds from the same listing and the same gist
InOrderLabels == [k \in DOMAIN gists |-> Label(gists[k], AscendingNames(gists[k].Files))]
InOrderFilenames == SortStrings(AscendingNames(gist.Files))
InOrderListing == Concat([k \in DOMAIN InOrderFilenames |-> InOrderFilenames[k] \o <<NL>>])

\* C18 as stated: what is displayed from a Files mapping does not depend on
\* the order in which the mapping is iterated: the labels of the picker,
\* the filenames listed or rendered, the files-only listing and the default
\* body are those of the run that iterates in ascending order.
C18_OrderIndependent ==
    /\ OptionsBuilt => labels = InOrderLabels
    /\ pc \in {"list", "body"} => filenames = InOrderFilenames
    /\ (FilesOnly /\ Fetched /\ Returning) => out = InOrderListing
    /\ (DefaultMode /\ Fetched) => IsPrefix(out, ExpectedBody(gist))
    /\ (DefaultMode /\ Fetched /\ Returned /\ result = Nil) => out = ExpectedBody(gist)

\* C19: whatever reaches the primary output is a write made after the call
\* of StartPager and before the call of StopPager; StartPager is called at
\* most once in a run, and only after GetGist returned a gist.
C19_WritesInsidePager ==
    /\ out = Written(calls)
    /\ out # <<>> => Called("StartPager")
    /\ \A k \in CallsOf("Write") :
         /\ \E j \in CallsOf("StartPager") : j < k
         /\ \A j \in CallsOf("StopPager") : k < j
    /\ Cardinality(CallsOf("StartPager")) <= 1
    /\ \A k \in CallsOf("StartPager") :
         \E j \in CallsOf("GetGist") : j < k /\ calls[j].ret = Nil

\* a finished run that wrote, by viewRun and by render, inside the pager
C19_Witness ==
    /\ Returned
    /\ result = Nil
    /\ \E s, v, r, e \in DOMAIN calls :
         /\ s < v /\ v < r /\ r < e
         /\ calls[s].op = "StartPager"
         /\ calls[v].op = "Write" /\ calls[v].by = "viewRun"
         /\ calls[r].op = "Write" /\ calls[r].by = "render"
         /\ calls[e].op = "StopPager"

\* C20: the client factory is the first thing viewRun calls, once; when it
\* returns an error, whatever the selector and the flags are, viewRun
\* returns that error and has done nothing else: no listing, no prompt, no
\* browser, no fetch, no pager, no render, and both streams are empty.
C20_ClientErrorFirst ==
    /\ calls # <<>> => calls[1].op = "HttpClient"
    /\ Cardinality(CallsOf("HttpClient")) <= 1
    /\ \A k \in CallsOf("HttpClient") :
         calls[k].ret # Nil =>
            /\ Returned
            /\ result = calls[k].ret
            /\ result = Err("HttpClient")
            /\ calls = <<calls[k]>>
            /\ out = <<>>
            /\ errOut = <<>>
            /\ gist = NoGist

\* --web with a selector: the client failed, and the browser was not opened
C20_Witness ==
    /\ Returned
    /\ opts.Web
    /\ opts.Selector = <<"a">>
    /\ result = Err("HttpClient")
    /\ Ops(calls) = {"HttpClient"}

====
